---- MODULE Spec2Model ----
(***************************************************************************)
(* Weighted-A* graph search (framework/graph_search/astar.py) over the MDA *)
(* ambulance routing problem (problems/mda_problem.py).                    *)
(*                                                                         *)
(* Three specifications share the variables below:                         *)
(*   SpecMDA   walks the successor relation of the MDA problem from the    *)
(*             initial state (expand_state_with_costs);                    *)
(*   SpecProbe applies is_goal to an arbitrary MDAState over the sites of  *)
(*             the problem input (any combination of the five fields);     *)
(*   Spec      runs the best-first search loop with the AStar policy.      *)
(***************************************************************************)
EXTENDS Integers, Sequences, FiniteSets, TLC

\* ------------------------------------------------------------------------
\* Bounds of the model
\* ------------------------------------------------------------------------
MaxRoommates == 2
MaxLabMatoshim == 1
MaxInitialMatoshim == 2
MaxCapacity == 3
MaxDist == 2
MaxH == 1
MaxExpand == 1
MaxCost == 2

\* ------------------------------------------------------------------------
\* Problem input (MDAProblemInput): sites
\* ------------------------------------------------------------------------
\* problem_input.reported_apartments
reported_apartments == {"a1", "a2"}

\* the laboratories a problem input can list
AllLabs == {"l1", "l2"}

\* problem_input.ambulance.initial_location
initial_location == "init"

\* everything a state's current_site can be
Sites == {initial_location} \cup reported_apartments \cup AllLabs

\* isinstance(site, Laboratory)
IsLaboratory(site) == site \in AllLabs

\* float('inf') as a cost component
Inf == -1

\* the distance finder's answer when there is no route (None)
NoRoute == -2

\* float('nan'): 0 * inf in the expanding priority
NaN == -3

\* max_nr_states_to_expand = None
NoBound == -4

MDAOptimizationObjective == {"Distance", "TestsTravelDistance"}

VARIABLES
    \* problem input and problem configuration
    laboratories,                   \* problem_input.laboratories, a list
    nr_roommates,                   \* apartment -> nr_roommates
    max_nr_matoshim,                \* laboratory -> max_nr_matoshim
    initial_nr_matoshim,            \* ambulance.initial_nr_matoshim
    taken_tests_storage_capacity,   \* ambulance.taken_tests_storage_capacity
    map_cost,                       \* <<site, site>> -> distance or NoRoute
    optimization_objective,         \* MDAProblem.optimization_objective
    \* walk along the successor relation
    state,                          \* the MDAState reached
    prev_state,                     \* the state it was expanded from
    operator_name,                  \* the operator applied last
    operator_cost,                  \* the MDACost of that operator
    \* is_goal applied to an arbitrary state
    probe_state,
    probe_result,
    \* MDACost.__add__ applied to arbitrary costs
    cost_args,                      \* three MDACost values a, b, c
    cost_sums,                      \* <<a + b, b + a, (a + b) + c, a + (b + c)>>
    \* solver configuration (AStar.__init__)
    heuristic,                      \* kind of site -> estimate
    heuristic_weight,               \* twice the weight w: 0, 1, 2 for 0, 0.5, 1
    max_nr_states_to_expand,
    \* the search run
    open,                           \* the nodes in Open
    close,                          \* the nodes in Close
    pc,                             \* where the search loop is
    next_node_to_expand,            \* the node extracted last
    successors,                     \* results of the expansion not yet reconciled
    nr_expanded_states,
    expanded_states,                \* history: states expanded, no cheaper candidate since
    reopened_states,                \* history: states that left Close for Open
    last_policy,                    \* history: what _open_successor_node did last
    \* a second run on the same problem
    pushed,                         \* the states in the order they entered Open
    first_run                       \* <<>>, or what the first run returned

\* the laboratories of the problem input, as a set
LabSet == {laboratories[i] : i \in 1..Len(laboratories)}

input_vars == <<laboratories, nr_roommates, max_nr_matoshim, initial_nr_matoshim,
                taken_tests_storage_capacity, map_cost, optimization_objective>>
walk_vars == <<state, prev_state, operator_name, operator_cost>>
probe_vars == <<probe_state, probe_result, cost_args, cost_sums>>
solver_vars == <<heuristic, heuristic_weight, max_nr_states_to_expand>>
search_vars == <<open, close, pc, next_node_to_expand, successors,
                 nr_expanded_states, expanded_states,
                   reopened_states, last_policy>>
rerun_vars == <<pushed, first_run>>
vars == <<input_vars, walk_vars, probe_vars, solver_vars, search_vars, rerun_vars>>

\* ------------------------------------------------------------------------
\* MDACost
\* ------------------------------------------------------------------------
MDACost(distance_cost, tests_travel_distance_cost, objective) ==
    [distance_cost |-> distance_cost,
     tests_travel_distance_cost |-> tests_travel_distance_cost,
     optimization_objective |-> objective]

\* float addition with inf and nan
FloatAdd(x, y) ==
    IF x = NaN \/ y = NaN THEN NaN
    ELSE IF x = Inf \/ y = Inf THEN Inf
    ELSE x + y

\* float multiplication of a finite k >= 0 with x
FloatMul(k, x) ==
    IF x = NaN THEN NaN
    ELSE IF x = Inf THEN (IF k = 0 THEN NaN ELSE Inf)
    ELSE k * x

\* float comparison x < y with inf and nan (every comparison with nan is false)
FloatLess(x, y) ==
    /\ x # NaN
    /\ y # NaN
    /\ x # Inf
    /\ (y = Inf \/ x < y)

\* MDACost.__add__ (the assertion on the objectives is CostAddDefined)
CostAddDefined(c1, c2) == c2.optimization_objective = c1.optimization_objective

\* mutant: the second component takes the other cost's distance
CostAdd_mixed_components(c1, c2) ==
    MDACost(FloatAdd(c1.distance_cost, c2.distance_cost),
            FloatAdd(c1.tests_travel_distance_cost, c2.distance_cost),
            c1.optimization_objective)

CostAdd(c1, c2) ==
    MDACost(FloatAdd(c1.distance_cost, c2.distance_cost),
            FloatAdd(c1.tests_travel_distance_cost, c2.tests_travel_distance_cost),
            c1.optimization_objective)

\* what a failed assert leaves instead of a value
AssertionError == [error |-> "AssertionError"]

\* MDACost.__add__ with its assertion
MDACost_add(c1, c2) ==
    IF CostAddDefined(c1, c2) THEN CostAdd(c1, c2) ELSE AssertionError

\* MDACost.get_g_cost
get_g_cost(c) ==
    IF c.optimization_objective = "Distance" THEN c.distance_cost
    ELSE c.tests_travel_distance_cost

\* mutant: the zero cost is built with the default objective of MDACost
get_zero_cost_default_objective == MDACost(0, 0, "Distance")

\* MDAProblem.get_zero_cost
get_zero_cost == MDACost(0, 0, optimization_objective)

\* ------------------------------------------------------------------------
\* MDAState
\* ------------------------------------------------------------------------
MDAState(site, on_ambulance, transferred, matoshim, labs) ==
    [current_site |-> site,
     tests_on_ambulance |-> on_ambulance,
     tests_transferred_to_lab |-> transferred,
     nr_matoshim_on_ambulance |-> matoshim,
     visited_labs |-> labs]

\* MDAProblem.__init__: the initial state
initial_state == MDAState(initial_location, {}, {}, initial_nr_matoshim, {})

RECURSIVE SumRoommates(_)
SumRoommates(S) ==
    IF S = {} THEN 0
    ELSE LET a == CHOOSE x \in S : TRUE
         IN nr_roommates[a] + SumRoommates(S \ {a})

\* MDAState.get_total_nr_tests_taken_and_stored_on_ambulance
get_total_nr_tests_taken_and_stored_on_ambulance(s) ==
    SumRoommates(s.tests_on_ambulance)

\* mutant: only the tests still on the ambulance count as visited
get_reported_apartments_waiting_to_visit_ignoring_transferred(s) ==
    reported_apartments \ s.tests_on_ambulance

\* MDAProblem.get_reported_apartments_waiting_to_visit
get_reported_apartments_waiting_to_visit(s) ==
    reported_apartments \ (s.tests_transferred_to_lab \cup s.tests_on_ambulance)

\* mutant: the tests counted are those on the ambulance after the operator
get_operator_cost_tests_after(prev, succ) ==
    LET distance_cost == map_cost[<<prev.current_site, succ.current_site>>]
    IN IF distance_cost = NoRoute
       THEN MDACost(Inf, Inf, optimization_objective)
       ELSE MDACost(distance_cost,
                    get_total_nr_tests_taken_and_stored_on_ambulance(succ) * distance_cost,
                    optimization_objective)

\* MDAProblem.get_operator_cost
get_operator_cost(prev, succ) ==
    LET distance_cost == map_cost[<<prev.current_site, succ.current_site>>]
    IN IF distance_cost = NoRoute
       THEN MDACost(Inf, Inf, optimization_objective)
       ELSE MDACost(distance_cost,
                    get_total_nr_tests_taken_and_stored_on_ambulance(prev) * distance_cost,
                    optimization_objective)

OperatorResult(successor_state, cost, name) ==
    [state |-> successor_state, cost |-> cost, name |-> name]

\* mutant: the storage capacity is not tested
CanVisitApartment_no_capacity(s, apartment) ==
    s.nr_matoshim_on_ambulance - nr_roommates[apartment] >= 0

\* mutant: the number of matoshim is not tested
CanVisitApartment_no_matoshim(s, apartment) ==
    taken_tests_storage_capacity
        - get_total_nr_tests_taken_and_stored_on_ambulance(s)
        - nr_roommates[apartment] >= 0

\* expand_state_with_costs, first loop: the test guarding the yield
CanVisitApartment(s, apartment) ==
    LET new_matoshim == s.nr_matoshim_on_ambulance - nr_roommates[apartment]
        remaining_capacity == taken_tests_storage_capacity
                              - get_total_nr_tests_taken_and_stored_on_ambulance(s)
        new_capacity == remaining_capacity - nr_roommates[apartment]
    IN new_matoshim >= 0 /\ new_capacity >= 0

\* mutant: the matoshim used for the apartment are not taken off the ambulance
VisitApartment_keeps_matoshim(s, apartment) ==
    LET new_tests_on_ambulance == s.tests_on_ambulance \cup {apartment}
        successor_state == MDAState(apartment, new_tests_on_ambulance,
                                    s.tests_transferred_to_lab,
                                    s.nr_matoshim_on_ambulance, s.visited_labs)
    IN OperatorResult(successor_state, get_operator_cost(s, successor_state),
                      <<"visit", apartment>>)

\* expand_state_with_costs, first loop: the successor yielded for an apartment
VisitApartment(s, apartment) ==
    LET new_matoshim == s.nr_matoshim_on_ambulance - nr_roommates[apartment]
        new_tests_on_ambulance == s.tests_on_ambulance \cup {apartment}
        successor_state == MDAState(apartment, new_tests_on_ambulance,
                                    s.tests_transferred_to_lab, new_matoshim,
                                    s.visited_labs)
    IN OperatorResult(successor_state, get_operator_cost(s, successor_state),
                      <<"visit", apartment>>)

\* mutant: every laboratory is yielded, visited or not, with or without tests
CanVisitLab_always(s, lab) == lab \in LabSet

\* expand_state_with_costs, second loop: the test guarding the yield
CanVisitLab(s, lab) ==
    LET tests_on_ambulance == get_total_nr_tests_taken_and_stored_on_ambulance(s)
        is_visited_lab == lab \in s.visited_labs
    IN ~is_visited_lab \/ tests_on_ambulance > 0

\* mutant: the laboratory's matoshim are taken on every visit
VisitLab_always_refill(s, lab) ==
    LET successor_state ==
            MDAState(lab, {}, s.tests_transferred_to_lab \cup s.tests_on_ambulance,
                     s.nr_matoshim_on_ambulance + max_nr_matoshim[lab],
                     s.visited_labs \cup {lab})
    IN OperatorResult(successor_state, get_operator_cost(s, successor_state),
                      <<"go to lab", lab>>)

\* mutant: only the tests on the ambulance are recorded as transferred
VisitLab_forgets_transferred(s, lab) ==
    LET is_visited_lab == lab \in s.visited_labs
        new_matoshim == IF ~is_visited_lab
                        THEN s.nr_matoshim_on_ambulance + max_nr_matoshim[lab]
                        ELSE s.nr_matoshim_on_ambulance
        successor_state == MDAState(lab, {}, s.tests_on_ambulance, new_matoshim,
                                    s.visited_labs \cup {lab})
    IN OperatorResult(successor_state, get_operator_cost(s, successor_state),
                      <<"go to lab", lab>>)

\* expand_state_with_costs, second loop: the successor yielded for a laboratory
VisitLab(s, lab) ==
    LET is_visited_lab == lab \in s.visited_labs
        new_matoshim == IF ~is_visited_lab
                        THEN s.nr_matoshim_on_ambulance + max_nr_matoshim[lab]
                        ELSE s.nr_matoshim_on_ambulance
        new_visited_labs == IF ~is_visited_lab
                            THEN s.visited_labs \cup {lab}
                            ELSE s.visited_labs
        new_transferred == s.tests_transferred_to_lab \cup s.tests_on_ambulance
        successor_state == MDAState(lab, {}, new_transferred, new_matoshim,
                                    new_visited_labs)
    IN OperatorResult(successor_state, get_operator_cost(s, successor_state),
                      <<"go to lab", lab>>)

\* the results the first loop yields (it iterates a set: no order)
ExpandApartments(s) ==
    {VisitApartment(s, apartment) :
        apartment \in {a \in get_reported_apartments_waiting_to_visit(s) :
                          CanVisitApartment(s, a)}}

\* the results the second loop yields, in the order of problem_input.laboratories
ExpandLabs(s) ==
    LET CanVisit(lab) == CanVisitLab(s, lab)
        eligible == SelectSeq(laboratories, CanVisit)
    IN [i \in 1..Len(eligible) |-> VisitLab(s, eligible[i])]

\* everything expand_state_with_costs yields for s
expand_state_with_costs(s) ==
    ExpandApartments(s) \cup {ExpandLabs(s)[i] : i \in 1..Len(ExpandLabs(s))}

\* mutant: the ambulance need not be in a laboratory
is_goal_anywhere(s) ==
    /\ reported_apartments = s.tests_transferred_to_lab
    /\ {} = s.tests_on_ambulance
    /\ s.nr_matoshim_on_ambulance >= 0
    /\ s.visited_labs \subseteq LabSet

\* mutant: the transferred tests are only tested to be reported ones
is_goal_transferred_subset(s) ==
    /\ IsLaboratory(s.current_site)
    /\ s.tests_transferred_to_lab \subseteq reported_apartments
    /\ {} = s.tests_on_ambulance
    /\ s.nr_matoshim_on_ambulance >= 0
    /\ s.visited_labs \subseteq LabSet

\* MDAProblem.is_goal
is_goal(s) ==
    LET is_in_lab == IsLaboratory(s.current_site)
        all_tests_taken == reported_apartments = s.tests_transferred_to_lab
    IN /\ is_in_lab
       /\ all_tests_taken
       /\ {} = s.tests_on_ambulance
       /\ s.nr_matoshim_on_ambulance >= 0
       /\ s.visited_labs \subseteq LabSet

\* ------------------------------------------------------------------------
\* Inputs
\* ------------------------------------------------------------------------
NoOperator == <<"none", "none">>

\* distance maps: every pair of distinct sites at distance d, except that
\* the pairs in blocked have no route
UniformMap(d, blocked) ==
    [p \in Sites \X Sites |->
        IF p[1] = p[2] THEN 0
        ELSE IF p \in blocked THEN NoRoute
        ELSE d]

WalkMaps ==
    {UniformMap(d, blocked) :
        d \in {1, MaxDist},
        blocked \in {{}, {<<"a1", "l1">>}}}

InputInit ==
    /\ laboratories = <<"l1", "l2">>
    /\ nr_roommates \in [reported_apartments -> 0..MaxRoommates]
    /\ max_nr_matoshim \in [LabSet -> 0..MaxLabMatoshim]
    /\ initial_nr_matoshim \in 0..MaxInitialMatoshim
    /\ taken_tests_storage_capacity \in 1..MaxCapacity

WalkIdle ==
    /\ state = MDAState(initial_location, {}, {}, 0, {})
    /\ prev_state = state
    /\ operator_name = NoOperator
    /\ operator_cost = MDACost(0, 0, "Distance")

CostIdle ==
    /\ cost_args = <<>>
    /\ cost_sums = <<>>

ProbeIdle ==
    /\ probe_state = MDAState(initial_location, {}, {}, 0, {})
    /\ probe_result = "none"
    /\ CostIdle

RerunIdle ==
    /\ pushed = <<>>
    /\ first_run = <<>>

SearchIdle ==
    /\ heuristic = [k \in {"apartment", "laboratory"} |-> 0]
    /\ heuristic_weight = 0
    /\ max_nr_states_to_expand = NoBound
    /\ open = {}
    /\ close = {}
    /\ pc = "not started"
    /\ next_node_to_expand = MDAState(initial_location, {}, {}, 0, {})
    /\ successors = <<>>
    /\ nr_expanded_states = 0
    /\ expanded_states = {}
    /\ reopened_states = {}
    /\ last_policy = "none"
    /\ RerunIdle

\* ------------------------------------------------------------------------
\* SpecMDA: the successor relation from the initial state
\* ------------------------------------------------------------------------
InitMDA ==
    /\ InputInit
    /\ map_cost \in WalkMaps
    /\ optimization_objective \in MDAOptimizationObjective
    /\ state = initial_state
    /\ prev_state = initial_state
    /\ operator_name = NoOperator
    /\ operator_cost = get_zero_cost
    /\ ProbeIdle
    /\ SearchIdle

Apply(result) ==
    /\ prev_state' = state
    /\ state' = result.state
    /\ operator_name' = result.name
    /\ operator_cost' = result.cost
    /\ UNCHANGED <<input_vars, probe_vars, solver_vars, search_vars, rerun_vars>>

\* one result of the first loop of expand_state_with_costs(state) is followed
ExpandVisitApartment ==
    \E result \in ExpandApartments(state) : Apply(result)

\* one result of the second loop of expand_state_with_costs(state) is followed
ExpandVisitLab ==
    \E i \in 1..Len(ExpandLabs(state)) : Apply(ExpandLabs(state)[i])

NextMDA == ExpandVisitApartment \/ ExpandVisitLab

SpecMDA == InitMDA /\ [][NextMDA]_vars

\* ------------------------------------------------------------------------
\* SpecProbe: is_goal on an arbitrary state over the problem's sites
\* ------------------------------------------------------------------------
ProbeStates ==
    {MDAState(site, on_ambulance, transferred, matoshim, labs) :
        site \in {initial_location} \cup reported_apartments \cup LabSet,
        on_ambulance \in SUBSET reported_apartments,
        transferred \in SUBSET reported_apartments,
        matoshim \in (-1)..MaxInitialMatoshim,
        labs \in SUBSET LabSet}

InitProbe ==
    /\ laboratories \in {<<"l1">>, <<"l1", "l2">>}
    /\ nr_roommates = [a \in reported_apartments |-> 1]
    /\ max_nr_matoshim = [l \in LabSet |-> 0]
    /\ initial_nr_matoshim = 0
    /\ taken_tests_storage_capacity = 1
    /\ map_cost = UniformMap(1, {})
    /\ optimization_objective = "Distance"
    /\ WalkIdle
    /\ SearchIdle
    /\ probe_state \in ProbeStates
    /\ probe_result = "none"
    /\ CostIdle

\* is_goal(probe_state) is called and its answer kept
ProbeGoal ==
    /\ probe_result = "none"
    /\ probe_result' = IF is_goal(probe_state) THEN "goal" ELSE "not goal"
    /\ UNCHANGED <<input_vars, walk_vars, probe_state, cost_args, cost_sums,
                   solver_vars, search_vars, rerun_vars>>

NextProbe == ProbeGoal

SpecProbe == InitProbe /\ [][NextProbe]_vars

\* ------------------------------------------------------------------------
\* SpecCost: MDACost.__add__ on arbitrary costs
\* ------------------------------------------------------------------------
CostValues ==
    {MDACost(distance_cost, tests_travel_distance_cost, objective) :
        distance_cost \in 0..MaxCost,
        tests_travel_distance_cost \in 0..MaxCost,
        objective \in MDAOptimizationObjective}

InitCost ==
    /\ laboratories = <<"l1">>
    /\ nr_roommates = [a \in reported_apartments |-> 1]
    /\ max_nr_matoshim = [l \in LabSet |-> 0]
    /\ initial_nr_matoshim = 0
    /\ taken_tests_storage_capacity = 1
    /\ map_cost = UniformMap(1, {})
    /\ optimization_objective = "Distance"
    /\ WalkIdle
    /\ SearchIdle
    /\ probe_state = MDAState(initial_location, {}, {}, 0, {})
    /\ probe_result = "none"
    /\ cost_args \in CostValues \X CostValues \X CostValues
    /\ cost_sums = <<>>

\* a + b, b + a, (a + b) + c and a + (b + c) are evaluated; an assertion that
\* fails in an inner sum ends the evaluation of the outer one
AddCosts ==
    /\ cost_sums = <<>>
    /\ LET a == cost_args[1]
           b == cost_args[2]
           c == cost_args[3]
           Sum(x, y) == IF x = AssertionError \/ y = AssertionError
                        THEN AssertionError
                        ELSE MDACost_add(x, y)
       IN cost_sums' = <<Sum(a, b), Sum(b, a), Sum(Sum(a, b), c), Sum(a, Sum(b, c))>>
    /\ UNCHANGED <<input_vars, walk_vars, probe_state, probe_result, cost_args,
                   solver_vars, search_vars, rerun_vars>>

NextCost == AddCosts

SpecCost == InitCost /\ [][NextCost]_vars

\* ------------------------------------------------------------------------
\* Search nodes, Open and Close
\* ------------------------------------------------------------------------
\* SearchNode: operators is the path of operator names that the parent links hold
SearchNode(s, cost, operators, expanding_priority) ==
    [state |-> s, cost |-> cost, operators |-> operators,
     expanding_priority |-> expanding_priority]

\* SearchNode.g_cost
g_cost(node) == get_g_cost(node.cost)

\* open.has_state / close.has_state
has_state(nodes, s) == \E n \in nodes : n.state = s

\* open.get_node_by_state / close.get_node_by_state
get_node_by_state(nodes, s) == CHOOSE n \in nodes : n.state = s

\* open.push_node
push_node(nodes, node) == nodes \cup {node}

\* open.extract_node: removal keyed by the node's state
extract_node(nodes, node) == {n \in nodes : n.state # node.state}

\* close.add_node
add_node(nodes, node) == nodes \cup {node}

\* close.remove_node: removal keyed by the node's state
remove_node(nodes, node) == {n \in nodes : n.state # node.state}

\* the nodes open.pop_next_node can return: those of minimal expanding priority
MinimalNodes(nodes) ==
    {n \in nodes :
        \A m \in nodes : ~FloatLess(m.expanding_priority, n.expanding_priority)}

\* ------------------------------------------------------------------------
\* AStar
\* ------------------------------------------------------------------------
SiteKind(site) == IF IsLaboratory(site) THEN "laboratory" ELSE "apartment"

\* heuristic_function.estimate(state)
estimate(s) == heuristic[SiteKind(s.current_site)]

\* AStar._calc_node_expanding_priority, times 2:
\* ((1 - w) * g_cost) + (w * h_cost) with w = heuristic_weight / 2
calc_node_expanding_priority(s, cost) ==
    LET h_cost == estimate(s)
    IN FloatAdd(FloatMul(2 - heuristic_weight, get_g_cost(cost)),
                FloatMul(heuristic_weight, h_cost))

\* mutant: a cheaper candidate for a state in Close enters Open, but the stale
\* node stays in Close
open_successor_node_close_kept(op, cl, successor_node) ==
    IF has_state(op, successor_node.state)
    THEN LET existing_node == get_node_by_state(op, successor_node.state)
         IN IF FloatLess(g_cost(successor_node), g_cost(existing_node))
            THEN [open |-> push_node(extract_node(op, existing_node), successor_node),
                  close |-> cl]
            ELSE [open |-> op, close |-> cl]
    ELSE IF has_state(cl, successor_node.state)
    THEN LET existing_node == get_node_by_state(cl, successor_node.state)
         IN IF FloatLess(g_cost(successor_node), g_cost(existing_node))
            THEN [open |-> push_node(op, successor_node), close |-> cl]
            ELSE [open |-> op, close |-> cl]
    ELSE [open |-> push_node(op, successor_node), close |-> cl]

\* mutant: a cheaper candidate for a state in Open is pushed and the node it
\* supersedes is left in Open
open_successor_node_open_both(op, cl, successor_node) ==
    IF has_state(op, successor_node.state)
    THEN LET existing_node == get_node_by_state(op, successor_node.state)
         IN IF FloatLess(g_cost(successor_node), g_cost(existing_node))
            THEN [open |-> push_node(op, successor_node), close |-> cl]
            ELSE [open |-> op, close |-> cl]
    ELSE IF has_state(cl, successor_node.state)
    THEN LET existing_node == get_node_by_state(cl, successor_node.state)
         IN IF FloatLess(g_cost(successor_node), g_cost(existing_node))
            THEN [open |-> push_node(op, successor_node),
                  close |-> remove_node(cl, successor_node)]
            ELSE [open |-> op, close |-> cl]
    ELSE [open |-> push_node(op, successor_node), close |-> cl]

\* mutant: a candidate for a state in Close is reopened unless it is costlier
open_successor_node_reopen_on_equal(op, cl, successor_node) ==
    IF has_state(op, successor_node.state)
    THEN LET existing_node == get_node_by_state(op, successor_node.state)
         IN IF FloatLess(g_cost(successor_node), g_cost(existing_node))
            THEN [open |-> push_node(extract_node(op, existing_node), successor_node),
                  close |-> cl]
            ELSE [open |-> op, close |-> cl]
    ELSE IF has_state(cl, successor_node.state)
    THEN LET existing_node == get_node_by_state(cl, successor_node.state)
         IN IF ~FloatLess(g_cost(existing_node), g_cost(successor_node))
            THEN [open |-> push_node(op, successor_node),
                  close |-> remove_node(cl, successor_node)]
            ELSE [open |-> op, close |-> cl]
    ELSE [open |-> push_node(op, successor_node), close |-> cl]

\* mutant: a candidate for a state in Open is always discarded
open_successor_node_open_first_kept(op, cl, successor_node) ==
    IF has_state(op, successor_node.state)
    THEN [open |-> op, close |-> cl]
    ELSE IF has_state(cl, successor_node.state)
    THEN LET existing_node == get_node_by_state(cl, successor_node.state)
         IN IF FloatLess(g_cost(successor_node), g_cost(existing_node))
            THEN [open |-> push_node(op, successor_node),
                  close |-> remove_node(cl, successor_node)]
            ELSE [open |-> op, close |-> cl]
    ELSE [open |-> push_node(op, successor_node), close |-> cl]

\* mutant: a candidate for a state in Open replaces the node unless it is costlier
open_successor_node_replace_on_equal(op, cl, successor_node) ==
    IF has_state(op, successor_node.state)
    THEN LET existing_node == get_node_by_state(op, successor_node.state)
         IN IF ~FloatLess(g_cost(existing_node), g_cost(successor_node))
            THEN [open |-> push_node(extract_node(op, existing_node), successor_node),
                  close |-> cl]
            ELSE [open |-> op, close |-> cl]
    ELSE IF has_state(cl, successor_node.state)
    THEN LET existing_node == get_node_by_state(cl, successor_node.state)
         IN IF FloatLess(g_cost(successor_node), g_cost(existing_node))
            THEN [open |-> push_node(op, successor_node),
                  close |-> remove_node(cl, successor_node)]
            ELSE [open |-> op, close |-> cl]
    ELSE [open |-> push_node(op, successor_node), close |-> cl]

\* AStar._open_successor_node: Open and Close after the call
open_successor_node(op, cl, successor_node) ==
    IF has_state(op, successor_node.state)
    THEN LET existing_node == get_node_by_state(op, successor_node.state)
         IN IF FloatLess(g_cost(successor_node), g_cost(existing_node))
            THEN [open |-> push_node(extract_node(op, existing_node), successor_node),
                  close |-> cl]
            ELSE [open |-> op, close |-> cl]
    ELSE IF has_state(cl, successor_node.state)
    THEN LET existing_node == get_node_by_state(cl, successor_node.state)
         IN IF FloatLess(g_cost(successor_node), g_cost(existing_node))
            THEN [open |-> push_node(op, successor_node),
                  close |-> remove_node(cl, successor_node)]
            ELSE [open |-> op, close |-> cl]
    ELSE [open |-> push_node(op, successor_node), close |-> cl]

\* ------------------------------------------------------------------------
\* Spec: the best-first search loop
\* ------------------------------------------------------------------------
\* the node the loop builds for one result of the expansion of node
SuccessorNode(node, result) ==
    LET cost == MDACost_add(node.cost, result.cost)
    IN SearchNode(result.state, cost, Append(node.operators, result.name),
                  calc_node_expanding_priority(result.state, cost))

\* the orders in which expand_state_with_costs can yield its results: the
\* apartments in any order (they are iterated from a set), then the laboratories
RECURSIVE Orders(_)
Orders(S) ==
    IF S = {} THEN {<<>>}
    ELSE UNION {{<<x>> \o rest : rest \in Orders(S \ {x})} : x \in S}

ExpansionOrders(s) == {apartments \o ExpandLabs(s) : apartments \in Orders(ExpandApartments(s))}

\* what _open_successor_node is about to do with the candidate
PolicyCase(op, cl, successor_node) ==
    IF has_state(op, successor_node.state)
    THEN IF FloatLess(g_cost(successor_node),
                      g_cost(get_node_by_state(op, successor_node.state)))
         THEN "open-cheaper" ELSE "open-not-cheaper"
    ELSE IF has_state(cl, successor_node.state)
    THEN IF FloatLess(g_cost(successor_node),
                      g_cost(get_node_by_state(cl, successor_node.state)))
         THEN "close-cheaper" ELSE "close-not-cheaper"
    ELSE "new"

\* positions of the sites on a line; the distance is the difference
LineMap(pos, blocked) ==
    [p \in Sites \X Sites |->
        IF p[1] = p[2] THEN 0
        ELSE IF p \in blocked THEN NoRoute
        ELSE IF pos[p[1]] >= pos[p[2]] THEN pos[p[1]] - pos[p[2]]
        ELSE pos[p[2]] - pos[p[1]]]

\* the ambulance starts at 0, the apartments and the laboratory l1 lie further on
Positions ==
    {q \in [Sites -> 0..MaxDist] :
        /\ q[initial_location] = 0
        /\ q["l2"] = 0
        /\ \A x \in reported_apartments \cup {"l1"} : q[x] >= 1}

\* a1 next to the start, a2 and the laboratory at the far end
FarLab == [x \in Sites |-> IF x \in {"a2", "l1"} THEN MaxDist
                           ELSE IF x = "a1" THEN 1 ELSE 0]

\* the maps and objectives a search is run on: every line map under the distance
\* objective; one map under the tests-travel objective; one map with a pair
\* of sites that no route joins
SearchScenarios ==
    {[map |-> LineMap(pos, {}), objective |-> "Distance"] : pos \in Positions}
    \cup {[map |-> LineMap(FarLab, {}), objective |-> "TestsTravelDistance"],
          [map |-> LineMap(FarLab, {<<"a1", "l1">>}), objective |-> "Distance"]}

Init ==
    /\ laboratories = <<"l1">>
    /\ nr_roommates = [a \in reported_apartments |-> 1]
    /\ max_nr_matoshim = [l \in LabSet |-> 1]
    /\ initial_nr_matoshim \in {0, 1}
    /\ taken_tests_storage_capacity \in {1, 2}
    /\ \E scenario \in SearchScenarios :
          /\ map_cost = scenario.map
          /\ optimization_objective = scenario.objective
    /\ WalkIdle
    /\ ProbeIdle
    /\ heuristic \in {h \in [{"apartment", "laboratory"} -> 0..MaxH] :
                        h["laboratory"] = 0}
    /\ heuristic_weight \in {0, 1, 2}
    /\ max_nr_states_to_expand \in {NoBound} \cup 1..MaxExpand
    /\ open = {SearchNode(initial_state, get_zero_cost, <<>>,
                          calc_node_expanding_priority(initial_state, get_zero_cost))}
    /\ close = {}
    /\ pc = "loop"
    /\ next_node_to_expand = MDAState(initial_location, {}, {}, 0, {})
    /\ successors = <<>>
    /\ nr_expanded_states = 0
    /\ expanded_states = {}
    /\ reopened_states = {}
    /\ last_policy = "none"
    /\ RerunIdle

Frame == UNCHANGED <<input_vars, walk_vars, probe_vars, solver_vars, rerun_vars>>

\* step 1: Open is empty
Exhausted ==
    /\ pc = "loop"
    /\ open = {}
    /\ pc' = "failed-exhausted"
    /\ UNCHANGED <<open, close, next_node_to_expand, successors,
                   nr_expanded_states, expanded_states,
                   reopened_states, last_policy>>
    /\ Frame

\* mutant: reaching the expansion bound is reported as an exhausted search
Bounded_as_exhausted ==
    /\ pc = "loop"
    /\ max_nr_states_to_expand # NoBound
    /\ nr_expanded_states >= max_nr_states_to_expand
    /\ \E node \in MinimalNodes(open) :
          /\ open' = open \ {node}
          /\ next_node_to_expand' = node
    /\ pc' = "failed-exhausted"
    /\ UNCHANGED <<close, successors, nr_expanded_states, expanded_states,
                   reopened_states, last_policy>>
    /\ UNCHANGED <<input_vars, walk_vars, probe_vars, solver_vars, rerun_vars>>

\* steps 2 and 3: a node is extracted and the expansion bound has been reached
Bounded ==
    /\ pc = "loop"
    /\ max_nr_states_to_expand # NoBound
    /\ nr_expanded_states >= max_nr_states_to_expand
    /\ \E node \in MinimalNodes(open) :
          /\ open' = open \ {node}
          /\ next_node_to_expand' = node
    /\ pc' = "failed-bounded"
    /\ UNCHANGED <<close, successors, nr_expanded_states, expanded_states,
                   reopened_states, last_policy>>
    /\ Frame

BoundReached ==
    /\ max_nr_states_to_expand # NoBound
    /\ nr_expanded_states >= max_nr_states_to_expand

\* steps 2 to 4: the node extracted is a goal
Succeeded ==
    /\ pc = "loop"
    /\ ~BoundReached
    /\ \E node \in MinimalNodes(open) :
          /\ is_goal(node.state)
          /\ open' = open \ {node}
          /\ next_node_to_expand' = node
    /\ pc' = "succeeded"
    /\ UNCHANGED <<close, successors, nr_expanded_states, expanded_states,
                   reopened_states, last_policy>>
    /\ Frame

\* steps 2 to 6: the node extracted is put in Close and expanded
Expand ==
    /\ pc = "loop"
    /\ ~BoundReached
    /\ \E node \in MinimalNodes(open) :
          /\ ~is_goal(node.state)
          /\ open' = open \ {node}
          /\ next_node_to_expand' = node
          /\ close' = add_node(close, node)
          /\ expanded_states' = expanded_states \cup {node.state}
          /\ \E order \in ExpansionOrders(node.state) :
                /\ successors' = order
                /\ pc' = IF order = <<>> THEN "loop" ELSE "successors"
    /\ nr_expanded_states' = nr_expanded_states + 1
    /\ UNCHANGED <<reopened_states, last_policy>>
    /\ Frame

\* step 6 a-d for the next result of the expansion; the run ends with the
\* error when the sum of the node's cost and the operator's cost fails
OpenSuccessor ==
    /\ pc = "successors"
    /\ IF MDACost_add(next_node_to_expand.cost, Head(successors).cost) = AssertionError
       THEN /\ pc' = "AssertionError"
            /\ UNCHANGED <<open, close, successors, last_policy,
                           expanded_states, reopened_states>>
       ELSE /\ LET successor_node == SuccessorNode(next_node_to_expand, Head(successors))
                   after == open_successor_node(open, close, successor_node)
                   case == PolicyCase(open, close, successor_node)
               IN /\ open' = after.open
                  /\ close' = after.close
                  /\ last_policy' = case
                  /\ expanded_states' = IF case = "close-cheaper"
                                        THEN expanded_states \ {successor_node.state}
                                        ELSE expanded_states
                  /\ reopened_states' = IF case = "close-cheaper"
                                        THEN reopened_states \cup {successor_node.state}
                                        ELSE reopened_states
            /\ successors' = Tail(successors)
            /\ pc' = IF Tail(successors) = <<>> THEN "loop" ELSE "successors"
    /\ UNCHANGED <<next_node_to_expand, nr_expanded_states>>
    /\ Frame

Next == Exhausted \/ Bounded \/ Succeeded \/ Expand \/ OpenSuccessor

Spec == Init /\ [][Next]_vars

\* ------------------------------------------------------------------------
\* SpecScenario: runs of the search, each one continued to its end, on problems
\* that differ in roommates, matoshim and storage capacity
\* ------------------------------------------------------------------------
ScenarioRoommates ==
    {[a \in reported_apartments |-> IF a = "a1" THEN 1 ELSE n] : n \in 1..3}

InitScenario ==
    /\ laboratories = <<"l1">>
    /\ nr_roommates \in ScenarioRoommates
    /\ max_nr_matoshim \in [LabSet -> 1..2]
    /\ initial_nr_matoshim \in 0..2
    /\ taken_tests_storage_capacity \in 1..3
    /\ map_cost = LineMap(FarLab, {})
    /\ optimization_objective \in MDAOptimizationObjective
    /\ WalkIdle
    /\ ProbeIdle
    /\ heuristic = [k \in {"apartment", "laboratory"} |->
                       IF k = "apartment" THEN MaxH ELSE 0]
    /\ heuristic_weight \in {0, 1, 2}
    /\ max_nr_states_to_expand \in {NoBound} \cup 1..MaxExpand
    /\ open = {SearchNode(initial_state, get_zero_cost, <<>>,
                          calc_node_expanding_priority(initial_state, get_zero_cost))}
    /\ close = {}
    /\ pc = "loop"
    /\ next_node_to_expand = MDAState(initial_location, {}, {}, 0, {})
    /\ successors = <<>>
    /\ nr_expanded_states = 0
    /\ expanded_states = {}
    /\ reopened_states = {}
    /\ last_policy = "none"
    /\ RerunIdle

SpecScenario == InitScenario /\ [][Next]_vars

\* ------------------------------------------------------------------------
\* SpecShortage: runs of the search, each one continued to its end, on
\* problems with at most one matoshim on the ambulance at the start: with one
\* laboratory or two, the second apartment with 1 roommate or 3
\* ------------------------------------------------------------------------
InitShortage ==
    /\ laboratories \in {<<"l1">>, <<"l1", "l2">>}
    /\ nr_roommates \in {r \in ScenarioRoommates : r["a2"] # 2}
    /\ max_nr_matoshim = [l \in LabSet |-> 1]
    /\ initial_nr_matoshim \in {0, 1}
    /\ Len(laboratories) = 2 => (nr_roommates["a2"] = 3 /\ initial_nr_matoshim = 0)
    /\ taken_tests_storage_capacity = 3
    /\ map_cost = LineMap(FarLab, {})
    /\ optimization_objective = "Distance"
    /\ WalkIdle
    /\ ProbeIdle
    /\ heuristic = [k \in {"apartment", "laboratory"} |->
                       IF k = "apartment" THEN MaxH ELSE 0]
    /\ heuristic_weight \in {0, 1, 2}
    /\ max_nr_states_to_expand \in {NoBound} \cup 1..MaxExpand
    /\ open = {SearchNode(initial_state, get_zero_cost, <<>>,
                          calc_node_expanding_priority(initial_state, get_zero_cost))}
    /\ close = {}
    /\ pc = "loop"
    /\ next_node_to_expand = MDAState(initial_location, {}, {}, 0, {})
    /\ successors = <<>>
    /\ nr_expanded_states = 0
    /\ expanded_states = {}
    /\ reopened_states = {}
    /\ last_policy = "none"
    /\ RerunIdle

\* the loop runs on until it ends
SpecShortage == InitShortage /\ [][Next]_vars /\ WF_vars(Next)

\* ------------------------------------------------------------------------
\* SpecRerun: the search is run twice on one problem; among the nodes of
\* minimal priority Open returns the one that entered it first
\* ------------------------------------------------------------------------
\* the place of the last entry of state s in the sequence
LastIndex(seq, s) ==
    CHOOSE i \in 1..Len(seq) :
        /\ seq[i] = s
        /\ \A j \in (i + 1)..Len(seq) : seq[j] # s

\* open.pop_next_node with ties broken by the order of insertion
FirstPushed ==
    CHOOSE n \in MinimalNodes(open) :
        \A m \in MinimalNodes(open) :
            LastIndex(pushed, n.state) <= LastIndex(pushed, m.state)

InitRerun ==
    /\ laboratories = <<"l1">>
    /\ nr_roommates = [a \in reported_apartments |-> 1]
    /\ max_nr_matoshim = [l \in LabSet |-> 1]
    /\ initial_nr_matoshim \in {0, 1, 2}
    /\ taken_tests_storage_capacity \in {1, 2}
    /\ map_cost \in {UniformMap(1, {}), LineMap(FarLab, {})}
    /\ optimization_objective = "Distance"
    /\ WalkIdle
    /\ ProbeIdle
    /\ heuristic \in {h \in [{"apartment", "laboratory"} -> 0..MaxH] :
                        h["laboratory"] = 0}
    /\ heuristic_weight \in {0, 1}
    /\ max_nr_states_to_expand = NoBound
    /\ open = {SearchNode(initial_state, get_zero_cost, <<>>,
                          calc_node_expanding_priority(initial_state, get_zero_cost))}
    /\ close = {}
    /\ pc = "loop"
    /\ next_node_to_expand = MDAState(initial_location, {}, {}, 0, {})
    /\ successors = <<>>
    /\ nr_expanded_states = 0
    /\ expanded_states = {}
    /\ reopened_states = {}
    /\ last_policy = "none"
    /\ pushed = <<initial_state>>
    /\ first_run = <<>>

RerunFrame == UNCHANGED <<input_vars, walk_vars, probe_vars, solver_vars>>

\* step 1: Open is empty
ExhaustedRerun ==
    /\ pc = "loop"
    /\ open = {}
    /\ pc' = "failed-exhausted"
    /\ UNCHANGED <<open, close, next_node_to_expand, successors,
                   nr_expanded_states, expanded_states,
                   reopened_states, last_policy, rerun_vars>>
    /\ RerunFrame

\* steps 2 to 4: the node extracted is a goal
SucceededRerun ==
    /\ pc = "loop"
    /\ open # {}
    /\ is_goal(FirstPushed.state)
    /\ open' = open \ {FirstPushed}
    /\ next_node_to_expand' = FirstPushed
    /\ pc' = "succeeded"
    /\ UNCHANGED <<close, successors, nr_expanded_states, expanded_states,
                   reopened_states, last_policy, rerun_vars>>
    /\ RerunFrame

\* steps 2 to 6: the node extracted is put in Close and expanded
ExpandRerun ==
    /\ pc = "loop"
    /\ open # {}
    /\ ~is_goal(FirstPushed.state)
    /\ open' = open \ {FirstPushed}
    /\ next_node_to_expand' = FirstPushed
    /\ close' = add_node(close, FirstPushed)
    /\ expanded_states' = expanded_states \cup {FirstPushed.state}
    /\ \E order \in ExpansionOrders(FirstPushed.state) :
          /\ successors' = order
          /\ pc' = IF order = <<>> THEN "loop" ELSE "successors"
    /\ nr_expanded_states' = nr_expanded_states + 1
    /\ UNCHANGED <<reopened_states, last_policy, rerun_vars>>
    /\ RerunFrame

\* step 6 a-d for the next result of the expansion
OpenSuccessorRerun ==
    /\ pc = "successors"
    /\ LET successor_node == SuccessorNode(next_node_to_expand, Head(successors))
           after == open_successor_node(open, close, successor_node)
           case == PolicyCase(open, close, successor_node)
       IN /\ open' = after.open
          /\ close' = after.close
          /\ last_policy' = case
          /\ expanded_states' = IF case = "close-cheaper"
                                THEN expanded_states \ {successor_node.state}
                                ELSE expanded_states
          /\ reopened_states' = IF case = "close-cheaper"
                                THEN reopened_states \cup {successor_node.state}
                                ELSE reopened_states
          /\ pushed' = IF successor_node \in after.open
                       THEN Append(pushed, successor_node.state)
                       ELSE pushed
    /\ successors' = Tail(successors)
    /\ pc' = IF Tail(successors) = <<>> THEN "loop" ELSE "successors"
    /\ UNCHANGED <<next_node_to_expand, nr_expanded_states, first_run>>
    /\ RerunFrame

\* the first run has ended: what it returned is kept and the search is started
\* again on the same problem with the same configuration
RunAgain ==
    /\ first_run = <<>>
    /\ pc \in {"succeeded", "failed-exhausted"}
    /\ first_run' = <<[outcome |-> pc,
                       operators |-> IF pc = "succeeded"
                                     THEN next_node_to_expand.operators ELSE <<>>,
                       cost |-> IF pc = "succeeded"
                                THEN next_node_to_expand.cost ELSE get_zero_cost]>>
    /\ open' = {SearchNode(initial_state, get_zero_cost, <<>>,
                           calc_node_expanding_priority(initial_state, get_zero_cost))}
    /\ close' = {}
    /\ pc' = "loop"
    /\ next_node_to_expand' = MDAState(initial_location, {}, {}, 0, {})
    /\ successors' = <<>>
    /\ nr_expanded_states' = 0
    /\ expanded_states' = {}
    /\ reopened_states' = {}
    /\ last_policy' = "none"
    /\ pushed' = <<initial_state>>
    /\ RerunFrame

NextRerun ==
    ExhaustedRerun \/ SucceededRerun \/ ExpandRerun \/ OpenSuccessorRerun \/ RunAgain

SpecRerun == InitRerun /\ [][NextRerun]_vars

\* ------------------------------------------------------------------------
\* SpecTerminate: runs of the search, each one continued to its end, on a map
\* and with weights under which states are reopened
\* ------------------------------------------------------------------------
\* both apartments next to the start, the laboratory at the far end
NearApartments == [x \in Sites |-> IF x = "l1" THEN MaxDist
                                   ELSE IF x \in reported_apartments THEN 1 ELSE 0]

InitTerminate ==
    /\ laboratories = <<"l1">>
    /\ nr_roommates = [a \in reported_apartments |-> 1]
    /\ max_nr_matoshim = [l \in LabSet |-> 1]
    /\ initial_nr_matoshim \in {0, 1}
    /\ taken_tests_storage_capacity = 1
    /\ map_cost = LineMap(NearApartments, {})
    /\ optimization_objective = "Distance"
    /\ WalkIdle
    /\ ProbeIdle
    /\ heuristic = [k \in {"apartment", "laboratory"} |-> 0]
    /\ heuristic_weight \in {0, 2}
    /\ max_nr_states_to_expand \in {NoBound} \cup 1..MaxExpand
    /\ open = {SearchNode(initial_state, get_zero_cost, <<>>,
                          calc_node_expanding_priority(initial_state, get_zero_cost))}
    /\ close = {}
    /\ pc = "loop"
    /\ next_node_to_expand = MDAState(initial_location, {}, {}, 0, {})
    /\ successors = <<>>
    /\ nr_expanded_states = 0
    /\ expanded_states = {}
    /\ reopened_states = {}
    /\ last_policy = "none"
    /\ RerunIdle

\* the loop runs on until it ends
SpecTerminate == InitTerminate /\ [][Next]_vars /\ WF_vars(Next)

\* ------------------------------------------------------------------------
\* Properties of the search
\* ------------------------------------------------------------------------
\* the candidate that the next OpenSuccessor step reconciles
Candidate == SuccessorNode(next_node_to_expand, Head(successors))

\* C1: when _open_successor_node receives a candidate for a state s that is not
\* in Open but in Close with cost c1, and the candidate costs c2: if c2 < c1,
\* afterwards Close holds no node for s and the candidate is in Open; if
\* c2 >= c1, Open and Close are unchanged.
C1_Step ==
    (pc = "successors" /\ ~has_state(open, Candidate.state)
                       /\ has_state(close, Candidate.state)) =>
        LET c1 == g_cost(CHOOSE n \in close : n.state = Candidate.state)
            c2 == g_cost(Candidate)
        IN IF FloatLess(c2, c1)
           THEN /\ \A n \in close' : n.state # Candidate.state
                /\ Candidate \in open'
           ELSE /\ close' = close
                /\ open' = open

C1_ReopenFromClose == [][C1_Step]_vars

\* a state was reopened: its cheaper node is in Open and Close holds none for it
C1_Witness ==
    /\ last_policy = "close-cheaper"
    /\ \E n \in open : n.state \notin {m.state : m \in close}
                       /\ n.state \notin expanded_states
                       /\ Len(n.operators) >= 2

\* C2: in every state of a run, no problem state has two nodes in Open, two
\* nodes in Close, or a node in Open and another in Close.
C2_OneNodePerState ==
    /\ \A n, m \in open : n.state = m.state => n = m
    /\ \A n, m \in close : n.state = m.state => n = m
    /\ \A n \in open : \A m \in close : n.state # m.state

\* a node in Open was replaced by a cheaper one while Close holds expanded states
C2_Witness ==
    /\ last_policy = "open-cheaper"
    /\ close # {}
    /\ Cardinality(open) >= 2

\* C3: a node extracted from Open that is no goal is in Close before any of its
\* successors is reconciled, and a state is expanded again only if since its
\* last expansion a candidate strictly cheaper than its node in Close was made.
C3_Step ==
    nr_expanded_states' = nr_expanded_states + 1 =>
        /\ ~(reported_apartments \subseteq next_node_to_expand'.state.tests_transferred_to_lab
                /\ next_node_to_expand'.state.current_site \in LabSet)
        /\ next_node_to_expand' \in open
        /\ next_node_to_expand' \in close'
        /\ Len(successors') = Cardinality(expand_state_with_costs(next_node_to_expand'.state))
        /\ last_policy' = last_policy
        /\ next_node_to_expand'.state \notin expanded_states

C3_ExpandOnce == [][C3_Step]_vars

\* a state is expanded for the second time
C3_Witness ==
    /\ pc = "successors"
    /\ next_node_to_expand \in close
    /\ next_node_to_expand.state \in reopened_states
    /\ next_node_to_expand.state \in expanded_states

\* the least objective cost of a path from s to a goal (Inf when there is none)
RECURSIVE CheapestToGoal(_)
CheapestToGoal(s) ==
    IF reported_apartments \subseteq s.tests_transferred_to_lab
          /\ s.current_site \in LabSet
    THEN 0
    ELSE LET costs == {FloatAdd(get_g_cost(r.cost), CheapestToGoal(r.state)) :
                          r \in expand_state_with_costs(s)}
         IN IF costs = {} THEN Inf
            ELSE CHOOSE c \in costs : \A d \in costs : ~FloatLess(d, c)

\* C4: with heuristic weight 0, when the search ends as succeeded, the cost of
\* the node returned is the least objective cost of a path from the initial
\* state to a goal.
C4_OptimalAtWeightZero ==
    (pc = "succeeded" /\ heuristic_weight = 0) =>
        g_cost(next_node_to_expand) = CheapestToGoal(initial_state)

\* at weight 0 the search returned a path of four operators with a positive cost
C4_Witness ==
    /\ pc = "succeeded"
    /\ heuristic_weight = 0
    /\ Len(next_node_to_expand.operators) = 4
    /\ g_cost(next_node_to_expand) > 0

\* ------------------------------------------------------------------------
\* Properties of the MDA problem
\* ------------------------------------------------------------------------
\* the demand of the apartments in a set, summed one apartment at a time
RECURSIVE Demand(_)
Demand(S) ==
    IF S = {} THEN 0
    ELSE LET a == CHOOSE x \in S : TRUE
         IN nr_roommates[a] + Demand(S \ {a})

YieldsVisit(s, a) == \E r \in expand_state_with_costs(s) : r.name = <<"visit", a>>

YieldsLab(s, lab) == \E r \in expand_state_with_costs(s) : r.name = <<"go to lab", lab>>

C6_PickupSuccessors ==
    \A a \in reported_apartments :
        /\ YieldsVisit(state, a) <=>
              /\ a \notin (state.tests_on_ambulance \cup state.tests_transferred_to_lab)
              /\ state.nr_matoshim_on_ambulance - nr_roommates[a] >= 0
              /\ Demand(state.tests_on_ambulance) + nr_roommates[a]
                    <= taken_tests_storage_capacity
        /\ \A r \in expand_state_with_costs(state) :
              r.name = <<"visit", a>> =>
                 /\ r.state.current_site = a
                 /\ r.state.tests_on_ambulance = state.tests_on_ambulance \cup {a}
                 /\ r.state.nr_matoshim_on_ambulance
                       = state.nr_matoshim_on_ambulance - nr_roommates[a]
                 /\ r.state.tests_transferred_to_lab = state.tests_transferred_to_lab
                 /\ r.state.visited_labs = state.visited_labs

\* a visit was followed, and in the state reached one waiting apartment is
\* yielded while another is refused for the capacity alone
C6_Witness ==
    /\ operator_name[1] = "visit"
    /\ \E a, b \in get_reported_apartments_waiting_to_visit(prev_state) :
          /\ a = operator_name[2]
          /\ b # a
          /\ state.nr_matoshim_on_ambulance - nr_roommates[b] >= 0
          /\ nr_roommates[b] > 0
          /\ ~YieldsVisit(state, b)
          /\ YieldsVisit(prev_state, b)

\* C7: expand_state_with_costs(s) yields "go to lab L" exactly when L is not in
\* visited_labs, or L is in visited_labs and tests_on_ambulance is non-empty
\* (also when every apartment on the ambulance has 0 roommates).
C7_LabEligibility ==
    \A lab \in LabSet :
        YieldsLab(state, lab) <=>
            \/ lab \notin state.visited_labs
            \/ (lab \in state.visited_labs /\ state.tests_on_ambulance # {})

\* C8: a "go to lab L" successor of s is at L with tests_on_ambulance empty and
\* tests_transferred_to_lab = s's transferred and on-ambulance tests together;
\* on a first visit the matoshim grow by L's max_nr_matoshim and L joins
\* visited_labs, on a repeat visit both are unchanged.
C8_LabEffect ==
    \A lab \in LabSet :
        \A r \in expand_state_with_costs(state) :
            r.name = <<"go to lab", lab>> =>
                /\ r.state.current_site = lab
                /\ r.state.tests_on_ambulance = {}
                /\ r.state.tests_transferred_to_lab
                      = state.tests_transferred_to_lab \cup state.tests_on_ambulance
                /\ lab \notin state.visited_labs =>
                      /\ r.state.nr_matoshim_on_ambulance
                            = state.nr_matoshim_on_ambulance + max_nr_matoshim[lab]
                      /\ r.state.visited_labs = state.visited_labs \cup {lab}
                /\ lab \in state.visited_labs =>
                      /\ r.state.nr_matoshim_on_ambulance = state.nr_matoshim_on_ambulance
                      /\ r.state.visited_labs = state.visited_labs

\* a laboratory with matoshim to give was visited a second time
C8_Witness ==
    /\ operator_name[1] = "go to lab"
    /\ operator_name[2] \in prev_state.visited_labs
    /\ max_nr_matoshim[operator_name[2]] > 0
    /\ state.nr_matoshim_on_ambulance = prev_state.nr_matoshim_on_ambulance

\* C9: in every state reachable from the initial state, tests_on_ambulance and
\* tests_transferred_to_lab are disjoint.
C9_Disjoint ==
    state.tests_on_ambulance \cap state.tests_transferred_to_lab = {}

\* an apartment was visited while another one's tests were already transferred
C9_Witness ==
    /\ operator_name[1] = "visit"
    /\ state.tests_on_ambulance # {}
    /\ state.tests_transferred_to_lab # {}

\* C10: with non-negative initial matoshim, roommates and laboratory matoshim,
\* every state reachable from the initial state and every successor that
\* expand_state_with_costs yields has nr_matoshim_on_ambulance >= 0.
C10_NoNegativeMatoshim ==
    /\ state.nr_matoshim_on_ambulance >= 0
    /\ \A r \in expand_state_with_costs(state) : r.state.nr_matoshim_on_ambulance >= 0

\* after a visit an apartment is waiting that needs more matoshim than are left,
\* though the capacity would take it
C10_Witness ==
    /\ operator_name[1] = "visit"
    /\ \E a \in get_reported_apartments_waiting_to_visit(state) :
          /\ state.nr_matoshim_on_ambulance - nr_roommates[a] < 0
          /\ Demand(state.tests_on_ambulance) + nr_roommates[a]
                <= taken_tests_storage_capacity
          /\ ~YieldsVisit(state, a)

\* C11: along every transition s -> s' of expand_state_with_costs,
\* s.tests_transferred_to_lab is a subset of s'.tests_transferred_to_lab; so
\* once every reported apartment is transferred, it stays so in every state
\* reached afterwards.
C11_TransferredGrows ==
    /\ prev_state.tests_transferred_to_lab \subseteq state.tests_transferred_to_lab
    /\ \A r \in expand_state_with_costs(state) :
          /\ state.tests_transferred_to_lab \subseteq r.state.tests_transferred_to_lab
          /\ reported_apartments \subseteq state.tests_transferred_to_lab
                => reported_apartments \subseteq r.state.tests_transferred_to_lab

\* every apartment was already transferred when one more laboratory was visited
C11_Witness ==
    /\ operator_name[1] = "go to lab"
    /\ reported_apartments \subseteq prev_state.tests_transferred_to_lab
    /\ reported_apartments \subseteq state.tests_transferred_to_lab
    /\ prev_state.visited_labs # state.visited_labs

\* C12: get_operator_cost(prev, succ) has both components infinite when there
\* is no route from prev's site to succ's site; otherwise its distance_cost is
\* the distance of the map and its tests_travel_distance_cost is that distance
\* times the roommates of the apartments on the ambulance in prev; in both
\* cases it carries the problem's optimization objective.
C12_OperatorCost ==
    \A r \in expand_state_with_costs(state) :
        LET d == map_cost[<<state.current_site, r.state.current_site>>]
        IN /\ r.cost.optimization_objective = optimization_objective
           /\ d = NoRoute =>
                 /\ r.cost.distance_cost = Inf
                 /\ r.cost.tests_travel_distance_cost = Inf
           /\ d # NoRoute =>
                 /\ r.cost.distance_cost = d
                 /\ r.cost.tests_travel_distance_cost
                       = Demand(state.tests_on_ambulance) * d

\* the operator followed had no route, with tests on the ambulance, and from
\* the state reached a route with tests on the ambulance is offered
C12_Witness ==
    /\ operator_cost.distance_cost = Inf
    /\ operator_cost.tests_travel_distance_cost = Inf
    /\ Demand(prev_state.tests_on_ambulance) > 0
    /\ \E r \in expand_state_with_costs(prev_state) :
          /\ r.cost.distance_cost \in 1..MaxDist
          /\ r.cost.tests_travel_distance_cost > r.cost.distance_cost

\* C13: the sum of two MDACost values with different optimization objectives
\* fails on the assertion and gives no cost; in a search run on one MDAProblem
\* the failure is never reached, for the zero cost and the cost of every
\* operator carry the problem's objective.
C13_ObjectivesAgree ==
    /\ pc # "AssertionError"
    /\ \A n \in open \cup close :
          n.cost.optimization_objective = optimization_objective
    /\ get_zero_cost.optimization_objective = optimization_objective
    /\ pc = "successors" =>
          \A i \in 1..Len(successors) :
              /\ successors[i].cost.optimization_objective = optimization_objective
              /\ \A objective \in MDAOptimizationObjective :
                    LET other == [successors[i].cost
                                     EXCEPT !.optimization_objective = objective]
                        sum == MDACost_add(next_node_to_expand.cost, other)
                    IN IF objective = next_node_to_expand.cost.optimization_objective
                       THEN sum # AssertionError
                       ELSE sum = AssertionError

\* a run under the tests-travel objective summed costs along a path to a goal
C13_Witness ==
    /\ pc = "succeeded"
    /\ optimization_objective = "TestsTravelDistance"
    /\ Len(next_node_to_expand.operators) >= 4
    /\ next_node_to_expand.cost.tests_travel_distance_cost > 0

\* C14: for MDACost values a, b, c with the same optimization objective and
\* components in 0..MaxCost, a + b = b + a and (a + b) + c = a + (b + c), each
\* component being the sum of the components, and the result carries the
\* objective of the operands.
C14_AddCommutesAssociates ==
    (/\ cost_sums # <<>>
     /\ cost_args[1].optimization_objective = cost_args[2].optimization_objective
     /\ cost_args[2].optimization_objective = cost_args[3].optimization_objective) =>
        LET a == cost_args[1]
            b == cost_args[2]
            c == cost_args[3]
        IN /\ cost_sums[1] = cost_sums[2]
           /\ cost_sums[3] = cost_sums[4]
           /\ cost_sums[1] = MDACost(a.distance_cost + b.distance_cost,
                                     a.tests_travel_distance_cost
                                        + b.tests_travel_distance_cost,
                                     a.optimization_objective)
           /\ cost_sums[3] = MDACost(a.distance_cost + b.distance_cost + c.distance_cost,
                                     a.tests_travel_distance_cost
                                        + b.tests_travel_distance_cost
                                        + c.tests_travel_distance_cost,
                                     a.optimization_objective)

\* three different costs of one objective were summed
C14_Witness ==
    /\ cost_sums # <<>>
    /\ cost_sums[3] # AssertionError
    /\ cost_args[1] # cost_args[2]
    /\ cost_args[2] # cost_args[3]
    /\ cost_args[1] # cost_args[3]
    /\ cost_sums[3].distance_cost > MaxCost
    /\ cost_sums[3].tests_travel_distance_cost > cost_sums[1].tests_travel_distance_cost

\* C15: when _open_successor_node receives a candidate for a state s that has
\* a node in Open: if the candidate is strictly cheaper, afterwards that node
\* is not in Open and the candidate is; otherwise Open is unchanged; in both
\* cases Close is unchanged.
C15_Step ==
    (pc = "successors" /\ has_state(open, Candidate.state)) =>
        LET existing == CHOOSE n \in open : n.state = Candidate.state
        IN /\ close' = close
           /\ IF FloatLess(g_cost(Candidate), g_cost(existing))
              THEN /\ existing \notin open'
                   /\ Candidate \in open'
                   /\ open' \ {Candidate} = open \ {existing}
              ELSE open' = open

C15_ReplaceInOpen == [][C15_Step]_vars

\* the node of a state in Open was replaced by a cheaper one with other operators
C15_Witness ==
    /\ last_policy = "open-cheaper"
    /\ pc = "loop"
    /\ \E n \in open :
          /\ Len(n.operators) = Len(next_node_to_expand.operators) + 1
          /\ SubSeq(n.operators, 1, Len(next_node_to_expand.operators))
                = next_node_to_expand.operators
          /\ n.state.tests_transferred_to_lab # {}

\* C16: a run ends in one of three outcomes that differ: failed-exhausted only
\* when Open is empty, failed-bounded only when the number of expanded states
\* has reached max_nr_states_to_expand, succeeded with a goal node; with
\* max_nr_states_to_expand = 1 on a problem whose goals lie more than one
\* expansion away, the run ends failed-bounded, not failed-exhausted.
C16_TerminalOutcomes ==
    /\ pc = "failed-exhausted" => open = {}
    /\ pc = "failed-bounded" =>
          /\ max_nr_states_to_expand # NoBound
          /\ nr_expanded_states >= max_nr_states_to_expand
    /\ pc = "succeeded" => is_goal(next_node_to_expand.state)
    /\ (/\ max_nr_states_to_expand = 1
        /\ ~is_goal(initial_state)
        /\ \A r \in expand_state_with_costs(initial_state) : ~is_goal(r.state)
        /\ pc \in {"failed-exhausted", "failed-bounded", "succeeded"}) =>
          /\ pc = "failed-bounded"
          /\ nr_expanded_states = 1

\* with the bound 1 the run ended after one expansion while Open held nodes
C16_Witness ==
    /\ max_nr_states_to_expand = 1
    /\ pc = "failed-bounded"
    /\ nr_expanded_states = 1
    /\ open # {}
    /\ Cardinality(close) = 1

\* C19: a node whose path holds an operator without a route (infinite cost) is
\* never the node extracted from Open to be tested and expanded, for every
\* heuristic weight, and no solution of infinite cost is returned.
C19_InfiniteNeverSelected ==
    (nr_expanded_states > 0 \/ pc \in {"succeeded", "failed-bounded"}) =>
        /\ next_node_to_expand.cost.distance_cost # Inf
        /\ pc = "succeeded" => g_cost(next_node_to_expand) # Inf

\* the matoshim there are in all: on the ambulance at the start and in the
\* laboratories
RECURSIVE SumMatoshim(_)
SumMatoshim(labs) ==
    IF labs = {} THEN 0
    ELSE LET lab == CHOOSE l \in labs : TRUE
         IN max_nr_matoshim[lab] + SumMatoshim(labs \ {lab})

\* scenario C: an apartment has more roommates than there are matoshim in all
DemandExceedsMatoshim ==
    \E a \in reported_apartments :
        nr_roommates[a] > initial_nr_matoshim + SumMatoshim(LabSet)

\* C17: when an apartment has more roommates than the matoshim of the ambulance
\* and of all laboratories together, a search without expansion bound never
\* succeeds and ends failed-exhausted, with Open empty.
C17_ScenarioC ==
    (DemandExceedsMatoshim /\ max_nr_states_to_expand = NoBound) =>
        /\ [](pc # "succeeded")
        /\ <>(pc = "failed-exhausted" /\ open = {})

\* such a search ended exhausted after it visited the other apartment and
\* every laboratory
C17_Witness ==
    /\ DemandExceedsMatoshim
    /\ max_nr_states_to_expand = NoBound
    /\ pc = "failed-exhausted"
    /\ \E n \in close : /\ n.state.visited_labs = LabSet
                        /\ n.state.tests_transferred_to_lab # {}


\* scenario B: each apartment's tests fit the storage alone, all of them
\* together do not
TestsExceedCapacity ==
    /\ \A a \in reported_apartments : nr_roommates[a] <= taken_tests_storage_capacity
    /\ Demand(reported_apartments) > taken_tests_storage_capacity

\* between any two visits of the operator sequence there is a "go to lab"
LabBetweenVisits(operators) ==
    \A i, j \in 1..Len(operators) :
        (i < j /\ operators[i][1] = "visit" /\ operators[j][1] = "visit") =>
            \E k \in (i + 1)..(j - 1) : operators[k][1] = "go to lab"

\* the number of "go to lab" operators of the sequence
NrLabOperators(operators) ==
    Cardinality({i \in 1..Len(operators) : operators[i][1] = "go to lab"})

\* the nodes the run holds
NodesOfRun ==
    open \cup close
        \cup (IF pc \in {"succeeded", "failed-bounded"} THEN {next_node_to_expand} ELSE {})

\* C18 as stated: when the two apartments together exceed the storage capacity
\* and each alone fits, every path the search builds has a "go to lab" between
\* the two visits, and the solution returned has two "go to lab" operators.
C18_ScenarioB_ExactlyTwo ==
    TestsExceedCapacity =>
        /\ \A n \in NodesOfRun : LabBetweenVisits(n.operators)
        /\ pc = "succeeded" => NrLabOperators(next_node_to_expand.operators) = 2

\* C18, amended: when the two apartments together exceed the storage capacity
\* and each alone fits, no state built has both apartments' tests on the
\* ambulance, every path the search builds has a "go to lab" between the two
\* visits, and the solution returned has at least two "go to lab" operators.
C18_ScenarioB ==
    TestsExceedCapacity =>
        /\ \A n \in NodesOfRun :
              /\ Cardinality(n.state.tests_on_ambulance) <= 1
              /\ LabBetweenVisits(n.operators)
        /\ pc = "succeeded" =>
              /\ NrLabOperators(next_node_to_expand.operators) >= 2
              /\ LabBetweenVisits(next_node_to_expand.operators)

\* in scenario B a solution with exactly two "go to lab" operators was returned
C18_Witness ==
    /\ TestsExceedCapacity
    /\ pc = "succeeded"
    /\ NrLabOperators(next_node_to_expand.operators) = 2
    /\ Len(next_node_to_expand.operators) = 4


\* C20: two runs of the search on the same problem with the same configuration
\* return the same solution, operators and cost, whatever the order in which
\* expand_state_with_costs yields the apartments still to visit, also when
\* nodes have the same priority.
C20_SameSolution ==
    (first_run # <<>> /\ pc \in {"succeeded", "failed-exhausted"}) =>
        /\ first_run[1].outcome = pc
        /\ pc = "succeeded" =>
              /\ first_run[1].operators = next_node_to_expand.operators
              /\ first_run[1].cost = next_node_to_expand.cost

\* the capacity and the matoshim account of a state
WithinCapacityAndAccount(s) ==
    /\ Demand(s.tests_on_ambulance) <= taken_tests_storage_capacity
    /\ s.nr_matoshim_on_ambulance
          = initial_nr_matoshim + SumMatoshim(s.visited_labs)
            - Demand(s.tests_on_ambulance \cup s.tests_transferred_to_lab)

\* C21: in every state reachable from the initial state, and in every successor
\* expand_state_with_costs yields from it, the roommates of the apartments on
\* the ambulance are at most taken_tests_storage_capacity, and
\* nr_matoshim_on_ambulance is initial_nr_matoshim plus the matoshim of the
\* visited laboratories minus the roommates of the apartments on the ambulance
\* or transferred.
C21_CapacityAndAccount ==
    /\ WithinCapacityAndAccount(state)
    /\ \A r \in expand_state_with_costs(state) : WithinCapacityAndAccount(r.state)

\* the storage is full after a visit, with tests transferred before and
\* matoshim taken from a laboratory
C21_Witness ==
    /\ operator_name[1] = "visit"
    /\ Demand(state.tests_on_ambulance) = taken_tests_storage_capacity
    /\ state.tests_transferred_to_lab # {}
    /\ SumMatoshim(state.visited_labs) > 0
    /\ Demand(state.tests_transferred_to_lab) > 0

\* what every operator increases: the apartments visited, the apartments
\* transferred and the laboratories visited, counted together
Progress(s) ==
    Cardinality(s.tests_on_ambulance \cup s.tests_transferred_to_lab)
        + Cardinality(s.tests_transferred_to_lab)
        + Cardinality(s.visited_labs)

\* every successor of a state the run holds, and every result of the expansion
\* under way, has made more progress than the state it comes from
ProgressGrows ==
    /\ \A n \in open \cup close :
          \A r \in expand_state_with_costs(n.state) : Progress(r.state) > Progress(n.state)
    /\ pc = "successors" =>
          \A i \in 1..Len(successors) :
              Progress(successors[i].state) > Progress(next_node_to_expand.state)

\* C22: every operator strictly increases |on ambulance or transferred| +
\* |transferred| + |visited laboratories|, so no state is reached from itself,
\* and the search loop eventually ends succeeded, failed-exhausted or
\* failed-bounded, also when states are reopened and no expansion bound is set.
C22_Terminates ==
    /\ []ProgressGrows
    /\ <>(pc \in {"succeeded", "failed-exhausted", "failed-bounded"})

\* a run without expansion bound ended after it had reopened a state
C22_Witness ==
    /\ max_nr_states_to_expand = NoBound
    /\ reopened_states # {}
    /\ pc \in {"succeeded", "failed-exhausted"}
    /\ nr_expanded_states > Cardinality(close)

====
